---- MODULE Spec2Model ----
(***************************************************************************)
(* A model of eol-check/eol_check.py: the EOL resolver (_resolve_eol), the *)
(* notification flow (_open_issues), the calendar flow (_calendar) and the *)
(* command dispatch (main).                                                *)
(*                                                                         *)
(* Python values are tagged records: [t |-> "str", v |-> ...],             *)
(* [t |-> "int", v |-> ...], [t |-> "none"] for None/null, and             *)
(* [t |-> "missing"] for a key that is not in a dict.  A string that the   *)
(* program parses (an ISO date) is a tuple of one-character strings; a     *)
(* string that the program only formats or compares is a TLA+ string.      *)
(* A call either returns ([ok |-> TRUE, val |-> ...]) or raises            *)
(* ([ok |-> FALSE, err |-> <exception class>]).                            *)
(***************************************************************************)
EXTENDS Integers, Sequences, FiniteSets, TLC

VARIABLES
    catalog,    \* the list of entries _load returned (fixed for all runs)
    cmd,        \* args.cmd of the current invocation
    token,      \* the GH_TOKEN environment variable of the current invocation
    pc,         \* where the current invocation is
    i,          \* 1-based index of the entry the for loop is at
    visited,    \* indices of the entries whose loop body has begun in this run
    cur,        \* what the current loop iteration has computed so far
    httpLog,    \* endpoints requested with requests.get in this run
    ghCalls,    \* gh subprocess calls of this run, in order
    out,        \* lines printed to stdout/stderr in this run
    tracker,    \* the issue tracker: its issues, open and closed, oldest first
    cal,        \* Calendar().events of the current invocation
    file,       \* the destination .ics file: its events, and whether this run wrote it
    exitCode,   \* exit status of the invocation (-1 while running)
    rIn,        \* resolver harness: the (entry, response) pair under test
    rOut        \* resolver harness: what _resolve_eol did with rIn

vars == <<catalog, cmd, token, pc, i, visited, cur, httpLog, ghCalls, out,
          tracker, cal, file, exitCode, rIn, rOut>>

-----------------------------------------------------------------------------
(* Bounds of the model *)

MaxEntries == 2     \* longest catalog
MaxReleases == 2    \* longest releases list in the resolver harness

-----------------------------------------------------------------------------
(* Python values *)

None == [t |-> "none"]
Missing == [t |-> "missing"]
S(s) == [t |-> "str", v |-> s]
N(n) == [t |-> "int", v |-> n]

\* dict.get(key, default)
Get(field, default) == IF field.t = "missing" THEN default ELSE field

\* Python ==: values of different types are never equal
PyEq(a, b) == a.t = b.t /\ (a.t \in {"none", "missing"} \/ a.v = b.v)

\* Python truthiness, as used by `not x`
Truthy(x) ==
    CASE x.t = "str" -> Len(x.v) # 0
      [] x.t = "int" -> x.v # 0
      [] OTHER -> FALSE

\* str(x) / format(x)
PyStr(x) ==
    CASE x.t = "str" -> x.v
      [] x.t = "int" -> ToString(x.v)
      [] OTHER -> "None"

Return(v) == [ok |-> TRUE, val |-> v]
Raise(e) == [ok |-> FALSE, err |-> e]

-----------------------------------------------------------------------------
(* datetime.date: fromisoformat, isoformat, subtraction *)

Digits == <<"0", "1", "2", "3", "4", "5", "6", "7", "8", "9">>

IsDigit(c) == \E k \in 1..10 : Digits[k] = c

DigitVal(c) == (CHOOSE k \in 1..10 : Digits[k] = c) - 1

IsLeap(y) == y % 4 = 0 /\ (y % 100 # 0 \/ y % 400 = 0)

DaysInMonth(y, m) ==
    CASE m \in {4, 6, 9, 11} -> 30
      [] m = 2 -> IF IsLeap(y) THEN 29 ELSE 28
      [] OTHER -> 31

RECURSIVE DaysBeforeMonth(_, _)
DaysBeforeMonth(y, m) ==
    IF m <= 1 THEN 0 ELSE DaysBeforeMonth(y, m - 1) + DaysInMonth(y, m - 1)

DaysBeforeYear(y) ==
    (y - 1) * 365 + (y - 1) \div 4 - (y - 1) \div 100 + (y - 1) \div 400

\* date.toordinal()
ToOrdinal(d) == DaysBeforeYear(d.year) + DaysBeforeMonth(d.year, d.month) + d.day

\* dt.date.fromisoformat on a str: exactly YYYY-MM-DD, a date of the calendar
\* (the further forms Python 3.11 accepts are not among the inputs below)
FromIsoFormat(cs) ==
    IF /\ Len(cs) = 10
       /\ cs[5] = "-" /\ cs[8] = "-"
       /\ \A k \in {1, 2, 3, 4, 6, 7, 9, 10} : IsDigit(cs[k])
    THEN LET y == DigitVal(cs[1]) * 1000 + DigitVal(cs[2]) * 100
                  + DigitVal(cs[3]) * 10 + DigitVal(cs[4])
             m == DigitVal(cs[6]) * 10 + DigitVal(cs[7])
             d == DigitVal(cs[9]) * 10 + DigitVal(cs[10])
         IN  IF y >= 1 /\ m \in 1..12 /\ d >= 1 /\ d <= DaysInMonth(y, m)
             THEN Return([year |-> y, month |-> m, day |-> d])
             ELSE Raise("ValueError")
    ELSE Raise("ValueError")

\* _iso(d): fromisoformat accepts a str only
_iso(d) ==
    IF d.t = "str" THEN FromIsoFormat(d.v) ELSE Raise("TypeError")

D2(n) == Digits[(n \div 10) + 1] \o Digits[(n % 10) + 1]

\* date.isoformat(): "%04d-%02d-%02d"
IsoFormat(d) ==
    D2(d.year \div 100) \o D2(d.year % 100) \o "-" \o D2(d.month) \o "-" \o D2(d.day)

\* _days_until(d), with dt.date.today() = today
_days_until(d, today) == ToOrdinal(d) - ToOrdinal(today)

-----------------------------------------------------------------------------
(* _resolve_eol *)

\* entry.get("source", "api") == "manual"
IsManual(entry) == PyEq(Get(entry.source, S("api")), S("manual"))

\* rel.get("name") == version
NameMatches(rel, version) == PyEq(Get(rel.name, None), S(version))

\* a scan that keeps the last matching release instead of stopping at the first
FirstMatch_Last(releases, version) ==
    LET hits == {k \in 1..Len(releases) : NameMatches(releases[k], version)}
    IN  IF hits = {} THEN 0 ELSE CHOOSE k \in hits : \A h \in hits : k >= h

\* for rel in releases: if rel.get("name") == version: ... return / raise
\* The index of the release the loop stops at, 0 when it runs to the end.
FirstMatch(releases, version) ==
    LET hits == {k \in 1..Len(releases) : NameMatches(releases[k], version)}
    IN  IF hits = {} THEN 0 ELSE CHOOSE k \in hits : \A h \in hits : k <= h

\* a status check that lets client errors through
RaiseForStatus_ServerOnly(status) == status >= 500 /\ status < 600

\* rv.raise_for_status(): 4xx and 5xx raise HTTPError
RaiseForStatus(status) == status >= 400 /\ status < 600

\* payload["result"]["releases"] under `except (KeyError, TypeError)`
SchemaReleases(payload) ==
    IF payload.t # "dict" THEN Raise("ValueError")
    ELSE IF payload.result.t # "dict" THEN Raise("ValueError")
    ELSE IF payload.result.releases.t = "missing" THEN Raise("ValueError")
    ELSE Return(payload.result.releases)

\* The body of the for loop over a releases list, and the raise after it
ScanReleases(entry, releases) ==
    LET version == PyStr(entry.version)
        k == FirstMatch(releases, version)
    IN  IF k = 0 THEN Raise("ValueError")
        ELSE LET eol_str == Get(releases[k].eolFrom, None)
             IN  IF ~Truthy(eol_str) THEN Raise("ValueError") ELSE _iso(eol_str)

\* _resolve_eol(entry), where rv is what requests.get answers if it is called.
\* The result carries the requests the call made.
_resolve_eol(entry, rv) ==
    IF IsManual(entry)
    THEN [res |-> IF entry.eol_date.t = "missing" THEN Raise("KeyError")
                  ELSE _iso(entry.eol_date),
          reqs |-> <<>>]
    ELSE IF entry.api_endpoint.t = "missing"
    THEN [res |-> Raise("KeyError"), reqs |-> <<>>]
    ELSE [reqs |-> <<entry.api_endpoint.v>>,
          res |->
            IF rv.status = 0 THEN Raise("RequestException")
            ELSE IF RaiseForStatus(rv.status) THEN Raise("HTTPError")
            ELSE IF rv.body.t = "notjson" THEN Raise("JSONDecodeError")
            ELSE LET rels == SchemaReleases(rv.body)
                 IN  IF ~rels.ok THEN rels
                     ELSE IF entry.version.t = "missing" THEN Raise("KeyError")
                     ELSE IF rels.val.t # "list" THEN Raise("TypeError")
                     ELSE ScanReleases(entry, rels.val.v)]

-----------------------------------------------------------------------------
(* Inputs: dates, entries, HTTP responses *)

Chars_2024_01_01 == <<"2", "0", "2", "4", "-", "0", "1", "-", "0", "1">>
Chars_2025_05_01 == <<"2", "0", "2", "5", "-", "0", "5", "-", "0", "1">>
Chars_2024_02_30 == <<"2", "0", "2", "4", "-", "0", "2", "-", "3", "0">>
Chars_soon == <<"s", "o", "o", "n">>

Date(y, m, d) == [year |-> y, month |-> m, day |-> d]

\* values dt.date.today() takes: 31 and 30 days before 2024-01-01, and after it
Todays == {Date(2023, 12, 1), Date(2023, 12, 2), Date(2024, 3, 1)}

Entry(product, version, source, eol_date, api_endpoint, issue_repo, warn_days) ==
    [product |-> product, version |-> version, source |-> source,
     eol_date |-> eol_date, api_endpoint |-> api_endpoint,
     issue_repo |-> issue_repo, warn_days |-> warn_days]

Endpoint == "https://endoflife.date/api/v1/products/foo"

ManualEntry ==
    Entry(S("Foo"), S("1.0"), S("manual"), S(Chars_2024_01_01), Missing,
          S("org/repo"), Missing)
ManualWithEndpoint ==
    Entry(S("Foo"), S("1.0"), S("manual"), S(Chars_2024_01_01), S(Endpoint),
          S("org/repo"), N(0))
ManualBadDate ==
    Entry(S("Bar"), S("3"), S("manual"), S(Chars_2024_02_30), Missing,
          S("org/repo"), Missing)
ApiEntry ==
    Entry(S("Foo"), N(2), Missing, Missing, S(Endpoint), S("org/repo"), N(60))
ApiCalendarOnly ==
    Entry(S("Foo"), N(2), S("api"), Missing, S(Endpoint), S(""), Missing)
ManualCalendarOnly ==
    Entry(S("Baz"), S("1.0"), S("manual"), S(Chars_soon), Missing, Missing, N(0))

Entries ==
    {ManualEntry, ManualWithEndpoint, ApiEntry, ApiCalendarOnly, ManualCalendarOnly}

Release(name, eolFrom) == [name |-> name, eolFrom |-> eolFrom]

JList(seq) == [t |-> "list", v |-> seq]
JResult(releases) == [t |-> "dict", releases |-> releases]
JPayload(result) == [t |-> "dict", result |-> result]

Http(status, body) == [status |-> status, body |-> body]
OkReleases(seq) == Http(200, JPayload(JResult(JList(seq))))

\* answers of the endpoint in the two flows
Responses ==
    { OkReleases(<<Release(S("2"), S(Chars_2024_01_01))>>),
      OkReleases(<<Release(S("1.0"), S(Chars_2024_01_01)),
                   Release(S("2"), S(Chars_2025_05_01)),
                   Release(S("2"), S(Chars_2024_01_01))>>),
      OkReleases(<<Release(S("1.0"), S(Chars_2024_01_01))>>),
      Http(404, None) }

-----------------------------------------------------------------------------
(* Templates and per-entry policy of _open_issues and _calendar *)

DefaultWarnDays == 30

\* int(e.get("warn_days", 30))
WarnDays(e) == Get(e.warn_days, N(DefaultWarnDays)).v

\* a window that excludes its last day
Due_Strict(days, warn) == days < warn

\* the negation of `if _days_until(eol) > warn: continue`
Due(days, warn) == ~(days > warn)

\* a skip that tests `repo is None` instead of `not repo`
CalendarOnly_NoneOnly(e) == e.issue_repo.t = "missing"

\* `if not repo: continue` with repo = e.get("issue_repo")
CalendarOnly(e) == ~Truthy(Get(e.issue_repo, None))

\* TITLE_TMPL.format(product=..., version=..., eol_date=eol.isoformat())
TITLE_TMPL(e, eol) ==
    PyStr(e.product) \o " " \o PyStr(e.version) \o " reaches EOL on " \o IsoFormat(eol)

\* source_ref=e.get("api_endpoint", "manual entry")
SourceRef(e) == PyStr(Get(e.api_endpoint, S("manual entry")))

\* BODY_TMPL.format(...): the four values the fixed template embeds
BODY_TMPL(e, eol) ==
    [product |-> PyStr(e.product), version |-> PyStr(e.version),
     eol_date |-> IsoFormat(eol), source_ref |-> SourceRef(e)]

\* the Event _calendar builds for an entry
CalEvent(e, eol) ==
    [name |-> PyStr(e.product) \o " " \o PyStr(e.version) \o " EOL",
     begin |-> eol,
     all_day |-> TRUE,
     uid |-> PyStr(e.product) \o "-" \o PyStr(e.version) \o "@eol-checks",
     description |-> TITLE_TMPL(e, eol)]

\* a check that tests `is None` instead of `not`
TokenMissing_NoneOnly(tok) == tok.t = "none"

\* `if not os.getenv("GH_TOKEN")`
TokenMissing(tok) == ~Truthy(tok)

\* a search with --state open
_issue_exists_OpenOnly(issues, repo, title) ==
    \E k \in 1..Len(issues) :
        /\ issues[k].repo = repo
        /\ issues[k].title = title
        /\ issues[k].state = "open"

\* json.loads(out) of `gh issue list --state all --search in:title "<title>" -L 1`
\* is non-empty: the tracker holds an issue, open or closed, with that title.
\* The search is taken to answer exactly: true iff such an issue exists.
_issue_exists(issues, repo, title) ==
    \E k \in 1..Len(issues) :
        /\ issues[k].repo = repo
        /\ issues[k].title = title
        /\ issues[k].state \in {"open", "closed"}

\* a loop that goes on to create whatever the search said
SkipCreate_Never(exists) == FALSE

\* `if _issue_exists(repo, title): print(...); continue`
SkipCreate(exists) == exists

\* a loop that catches the exception of an entry and goes on with the next
AfterRaise_Isolated(loop, idx) == [pc |-> loop, i |-> idx + 1, exitCode |-> -1]

\* Nothing in the loops catches an exception: it leaves the loop, the flow and
\* main, and the interpreter exits with status 1.
AfterRaise(loop, idx) == [pc |-> "crashed", i |-> idx, exitCode |-> 1]

-----------------------------------------------------------------------------
(* The program *)

NoCur == [step |-> "none"]
NoInput == [step |-> "none"]
OldFile == [fresh |-> FALSE, events |-> {}]

Tokens == {None, S(""), S("ghp_token")}
Commands == {"generate-ics", "open-issues"}

RECURSIVE SeqsUpTo(_, _)
SeqsUpTo(set, n) ==
    IF n = 0 THEN {<<>>}
    ELSE LET shorter == SeqsUpTo(set, n - 1)
         IN  shorter \cup {Append(q, x) : q \in {r \in shorter : Len(r) = n - 1}, x \in set}

Init ==
    /\ catalog \in SeqsUpTo(Entries, MaxEntries)
    /\ cmd = "none"
    /\ token = None
    /\ pc = "idle"
    /\ i = 1
    /\ visited = {}
    /\ cur = NoCur
    /\ httpLog = <<>>
    /\ ghCalls = <<>>
    /\ out = <<>>
    /\ tracker = <<>>
    /\ cal = {}
    /\ file = OldFile
    /\ exitCode = -1
    /\ rIn = NoInput
    /\ rOut = NoInput

\* main(): parse the arguments, load the catalog, enter the flow; for
\* open-issues, the GH_TOKEN check at the head of _open_issues.  The program
\* keeps nothing between invocations; the tracker and the .ics file do.
Start(c, tok) ==
    /\ pc \in {"idle", "done", "crashed", "exited"}
    /\ cmd' = c
    /\ token' = tok
    /\ i' = 1
    /\ visited' = {}
    /\ cur' = NoCur
    /\ httpLog' = <<>>
    /\ ghCalls' = <<>>
    /\ cal' = {}
    /\ IF c = "open-issues" /\ TokenMissing(tok)
       THEN /\ pc' = "exited"
            /\ exitCode' = 1
            /\ out' = <<[msg |-> "ERROR: GH_TOKEN env var not set"]>>
       ELSE /\ pc' = IF c = "open-issues" THEN "oi_loop" ELSE "cal_loop"
            /\ exitCode' = -1
            /\ out' = <<>>
    /\ file' = [file EXCEPT !.fresh = FALSE]
    /\ UNCHANGED <<catalog, tracker, rIn, rOut>>

\* One iteration of the loop of _open_issues, up to the call of _issue_exists
OI_Entry(rv, today) ==
    /\ pc = "oi_loop"
    /\ i <= Len(catalog)
    /\ visited' = visited \cup {i}
    /\ LET e == catalog[i]
       IN  IF CalendarOnly(e)
           THEN /\ cur' = [step |-> "skipped", idx |-> i]
                /\ i' = i + 1
                /\ UNCHANGED <<pc, exitCode, httpLog>>
           ELSE LET warn == WarnDays(e)
                    r == _resolve_eol(e, rv)
                IN  /\ httpLog' = httpLog \o r.reqs
                    /\ IF ~r.res.ok
                       THEN LET a == AfterRaise("oi_loop", i)
                            IN  /\ cur' = [step |-> "resolve_raised", idx |-> i,
                                           rv |-> rv, res |-> r.res]
                                /\ pc' = a.pc
                                /\ i' = a.i
                                /\ exitCode' = a.exitCode
                       ELSE LET eol == r.res.val
                                days == _days_until(eol, today)
                            IN  IF ~Due(days, warn)
                                THEN /\ cur' = [step |-> "not_due", idx |-> i, rv |-> rv,
                                                res |-> r.res, today |-> today]
                                     /\ i' = i + 1
                                     /\ UNCHANGED <<pc, exitCode>>
                                ELSE /\ cur' = [step |-> "due", idx |-> i, rv |-> rv,
                                                res |-> r.res, today |-> today,
                                                repo |-> PyStr(e.issue_repo),
                                                title |-> TITLE_TMPL(e, eol)]
                                     /\ pc' = "oi_exists"
                                     /\ UNCHANGED <<i, exitCode>>
    /\ UNCHANGED <<catalog, cmd, token, ghCalls, out, tracker, cal, file, rIn, rOut>>

\* _issue_exists(repo, title) and what the loop does with its answer, up to the
\* call of _create_issue.  gh may fail (check=True raises CalledProcessError).
OI_Exists(ghOk) ==
    /\ pc = "oi_exists"
    /\ LET found == _issue_exists(tracker, cur.repo, cur.title)
           call == [op |-> "exists", idx |-> i, repo |-> cur.repo, title |-> cur.title,
                    ret |-> IF ghOk THEN ToString(found) ELSE "raised"]
       IN  /\ ghCalls' = Append(ghCalls, call)
           /\ IF ~ghOk
              THEN LET a == AfterRaise("oi_loop", i)
                   IN  /\ cur' = [cur EXCEPT !.step = "exists_raised"]
                       /\ pc' = a.pc
                       /\ i' = a.i
                       /\ exitCode' = a.exitCode
                       /\ out' = out
              ELSE IF SkipCreate(found)
              THEN /\ cur' = [cur EXCEPT !.step = "exists_true"]
                   /\ out' = Append(out, [msg |-> "Issue already exists in",
                                          repo |-> cur.repo, title |-> cur.title])
                   /\ i' = i + 1
                   /\ pc' = "oi_loop"
                   /\ UNCHANGED exitCode
              ELSE /\ cur' = [step |-> "exists_false", idx |-> cur.idx, rv |-> cur.rv,
                              res |-> cur.res, today |-> cur.today, repo |-> cur.repo,
                              title |-> cur.title,
                              body |-> BODY_TMPL(catalog[i], cur.res.val)]
                   /\ pc' = "oi_create"
                   /\ UNCHANGED <<i, out, exitCode>>
    /\ UNCHANGED <<catalog, cmd, token, visited, httpLog, tracker, cal, file, rIn, rOut>>

\* _create_issue(repo, title, body) and the print after it
OI_Create(ghOk) ==
    /\ pc = "oi_create"
    /\ LET call == [op |-> "create", idx |-> i, repo |-> cur.repo, title |-> cur.title,
                    body |-> cur.body, ret |-> IF ghOk THEN "ok" ELSE "raised"]
       IN  /\ ghCalls' = Append(ghCalls, call)
           /\ IF ~ghOk
              THEN LET a == AfterRaise("oi_loop", i)
                   IN  /\ cur' = [cur EXCEPT !.step = "create_raised"]
                       /\ pc' = a.pc
                       /\ i' = a.i
                       /\ exitCode' = a.exitCode
                       /\ UNCHANGED <<out, tracker>>
              ELSE /\ cur' = [cur EXCEPT !.step = "created"]
                   /\ tracker' = Append(tracker, [repo |-> cur.repo, title |-> cur.title,
                                                  state |-> "open"])
                   /\ out' = Append(out, [msg |-> "Created issue in",
                                          repo |-> cur.repo, title |-> cur.title])
                   /\ i' = i + 1
                   /\ pc' = "oi_loop"
                   /\ UNCHANGED exitCode
    /\ UNCHANGED <<catalog, cmd, token, visited, httpLog, cal, file, rIn, rOut>>

\* the loop of _open_issues is exhausted: the flow and main return
OI_Done ==
    /\ pc = "oi_loop"
    /\ i > Len(catalog)
    /\ pc' = "done"
    /\ exitCode' = 0
    /\ UNCHANGED <<catalog, cmd, token, i, visited, cur, httpLog, ghCalls, out,
                   tracker, cal, file, rIn, rOut>>

\* One iteration of the loop of _calendar
Cal_Entry(rv) ==
    /\ pc = "cal_loop"
    /\ i <= Len(catalog)
    /\ visited' = visited \cup {i}
    /\ LET e == catalog[i]
           r == _resolve_eol(e, rv)
       IN  /\ httpLog' = httpLog \o r.reqs
           /\ out' = Append(out, [msg |-> "entry", idx |-> i])
           /\ IF ~r.res.ok
              THEN LET a == AfterRaise("cal_loop", i)
                   IN  /\ cur' = [step |-> "resolve_raised", idx |-> i, rv |-> rv,
                                  res |-> r.res]
                       /\ pc' = a.pc
                       /\ i' = a.i
                       /\ exitCode' = a.exitCode
                       /\ cal' = cal
              ELSE /\ cur' = [step |-> "event_added", idx |-> i, rv |-> rv, res |-> r.res]
                   /\ cal' = cal \cup {CalEvent(e, r.res.val)}
                   /\ i' = i + 1
                   /\ UNCHANGED <<pc, exitCode>>
    /\ UNCHANGED <<catalog, cmd, token, ghCalls, tracker, file, rIn, rOut>>

\* a write inside the loop: the file is written whenever the loop is left
Cal_Write_Partial ==
    /\ pc = "cal_loop"
    /\ file' = [fresh |-> TRUE, events |-> cal]
    /\ pc' = "done"
    /\ exitCode' = 0
    /\ UNCHANGED <<catalog, cmd, token, i, visited, cur, httpLog, ghCalls, out,
                   tracker, cal, rIn, rOut>>

\* dest.write_text(cal.serialize()), after the loop of _calendar
Cal_Write ==
    /\ pc = "cal_loop"
    /\ i > Len(catalog)
    /\ file' = [fresh |-> TRUE, events |-> cal]
    /\ pc' = "done"
    /\ exitCode' = 0
    /\ UNCHANGED <<catalog, cmd, token, i, visited, cur, httpLog, ghCalls, out,
                   tracker, cal, rIn, rOut>>

\* Outside the program: somebody closes an open issue of the tracker
Tracker_Close(k) ==
    /\ tracker[k].state = "open"
    /\ tracker' = [tracker EXCEPT ![k].state = "closed"]
    /\ UNCHANGED <<catalog, cmd, token, pc, i, visited, cur, httpLog, ghCalls, out,
                   cal, file, exitCode, rIn, rOut>>

Next ==
    \/ \E c \in Commands, tok \in Tokens : Start(c, tok)
    \/ \E rv \in Responses, today \in Todays : OI_Entry(rv, today)
    \/ \E ghOk \in BOOLEAN : OI_Exists(ghOk)
    \/ \E ghOk \in BOOLEAN : OI_Create(ghOk)
    \/ OI_Done
    \/ \E rv \in Responses : Cal_Entry(rv)
    \/ Cal_Write
    \/ \E k \in DOMAIN tracker : Tracker_Close(k)

Spec == Init /\ [][Next]_vars

-----------------------------------------------------------------------------
(* _resolve_eol on its own: every entry against every answer of the endpoint *)

HarnessNames == {S("2"), S("1.0"), N(2)}
HarnessEolFrom ==
    {Missing, None, S(<<>>), S(Chars_2024_01_01), S(Chars_2025_05_01), S(Chars_soon)}
HarnessReleases == {Release(n, d) : n \in HarnessNames, d \in HarnessEolFrom}

\* what rv.json() gives: not JSON at all, null, a list, a dict without or with
\* result, a result without or with releases, releases that is null or a list
HarnessBodies ==
    {JPayload(JResult(JList(q))) : q \in SeqsUpTo(HarnessReleases, MaxReleases)}
    \cup {[t |-> "notjson"], None, JList(<<>>), JPayload(Missing), JPayload(None),
          JPayload(JResult(Missing)), JPayload(JResult(None))}

\* status codes of the final response; Http(0, ...) is a request that raised
\* (timeout, connection error)
HarnessStatuses == {200, 300, 404, 500}

HarnessResponses ==
    {Http(st, b) : st \in HarnessStatuses, b \in HarnessBodies} \cup {Http(0, None)}

HarnessEntries ==
    {ApiEntry, ManualEntry, ManualBadDate,
     Entry(S("Foo"), S("1.0"), S("api"), S(Chars_2025_05_01), S(Endpoint), Missing, Missing)}

RInit ==
    /\ rIn \in [entry : HarnessEntries, rv : HarnessResponses]
    /\ rOut = NoInput
    /\ catalog = <<>>
    /\ cmd = "none"
    /\ token = None
    /\ pc = "idle"
    /\ i = 1
    /\ visited = {}
    /\ cur = NoCur
    /\ httpLog = <<>>
    /\ ghCalls = <<>>
    /\ out = <<>>
    /\ tracker = <<>>
    /\ cal = {}
    /\ file = OldFile
    /\ exitCode = -1

\* one call of _resolve_eol(rIn.entry) answered by rIn.rv
R_Resolve ==
    /\ rOut = NoInput
    /\ LET r == _resolve_eol(rIn.entry, rIn.rv)
       IN  /\ rOut' = [step |-> "called", res |-> r.res]
           /\ httpLog' = httpLog \o r.reqs
    /\ UNCHANGED <<catalog, cmd, token, pc, i, visited, cur, ghCalls, out, tracker,
                   cal, file, exitCode, rIn>>

RNext == R_Resolve

SpecResolve == RInit /\ [][RNext]_vars

-----------------------------------------------------------------------------
(* Properties *)

\* what the properties know of the inputs, stated without the program's operators
KnownDate(cs) ==
    CASE cs = Chars_2024_01_01 -> Date(2024, 1, 1)
      [] cs = Chars_2025_05_01 -> Date(2025, 5, 1)

IsKnownDate(x) == x.t = "str" /\ x.v \in {Chars_2024_01_01, Chars_2025_05_01}

\* (eol - today).days by the calendar
KnownDays(eol, today) ==
    CASE eol = Date(2024, 1, 1) /\ today = Date(2023, 12, 1) -> 31
      [] eol = Date(2024, 1, 1) /\ today = Date(2023, 12, 2) -> 30
      [] eol = Date(2024, 1, 1) /\ today = Date(2024, 3, 1) -> -60
      [] eol = Date(2025, 5, 1) /\ today = Date(2023, 12, 1) -> 517
      [] eol = Date(2025, 5, 1) /\ today = Date(2023, 12, 2) -> 516
      [] eol = Date(2025, 5, 1) /\ today = Date(2024, 3, 1) -> 426

HasRepo(e) == e.issue_repo.t = "str" /\ e.issue_repo.v # ""

SourceIsManual(e) == e.source.t = "str" /\ e.source.v = "manual"

RaisedSteps == {"resolve_raised", "exists_raised", "create_raised"}
NotifySteps == {"due", "exists_true", "exists_false", "exists_raised", "created",
                "create_raised"}
InOpenIssues == cmd = "open-issues" /\ pc # "exited"
InCalendar == cmd = "generate-ics"

\* C1, as claimed: in the open-issues flow a failure of one entry does not stop
\* the run; when the run has ended, every notification-eligible entry of the
\* catalog has been processed.
C1_FailureDoesNotAbort ==
    (InOpenIssues /\ pc \in {"done", "crashed"}) =>
        \A k \in 1..Len(catalog) : HasRepo(catalog[k]) => k \in visited

\* C1, amended: entries are processed one at a time in catalog order, and a
\* failure of resolve, exists or create ends the run at that entry with exit
\* status 1: the entries before it have been processed, no later entry is
\* touched; only a run without failure reaches every entry.
C1_FailureAbortsRun ==
    InOpenIssues =>
        /\ visited = 1..(IF pc \in {"oi_loop", "done"} THEN i - 1 ELSE i)
        /\ (cur.step \in RaisedSteps) <=> (pc = "crashed")
        /\ pc = "crashed" =>
              /\ exitCode = 1
              /\ cur.idx = i
              /\ i <= Len(catalog)
              /\ \A k \in 1..Len(ghCalls) : ghCalls[k].idx <= i
        /\ pc = "done" => visited = 1..Len(catalog) /\ exitCode = 0
        /\ \A k \in 1..Len(ghCalls) :
              \A j \in 1..k : ghCalls[j].idx <= ghCalls[k].idx

C1_Witness ==
    /\ InOpenIssues
    /\ pc = "crashed"
    /\ i < Len(catalog)
    /\ HasRepo(catalog[i + 1])
    /\ (i + 1) \notin visited

\* C2: create is called only directly after an exists call for the same entry,
\* repo and title that returned false; after an exists call that returned true
\* there is no create for that entry, "already exists" is printed and the loop
\* is at the next entry.
C2_CreateOnlyAfterExistsFalse ==
    InOpenIssues =>
        /\ \A k \in 1..Len(ghCalls) :
              ghCalls[k].op = "create" =>
                 /\ k > 1
                 /\ ghCalls[k - 1].op = "exists"
                 /\ ghCalls[k - 1].ret = "FALSE"
                 /\ ghCalls[k - 1].idx = ghCalls[k].idx
                 /\ ghCalls[k - 1].repo = ghCalls[k].repo
                 /\ ghCalls[k - 1].title = ghCalls[k].title
        /\ \A k \in 1..Len(ghCalls) :
              (ghCalls[k].op = "exists" /\ ghCalls[k].ret = "TRUE") =>
                 /\ \A j \in 1..Len(ghCalls) :
                       ghCalls[j].op = "create" => ghCalls[j].idx # ghCalls[k].idx
                 /\ \E m \in 1..Len(out) :
                       /\ out[m].msg = "Issue already exists in"
                       /\ out[m].repo = ghCalls[k].repo
                       /\ out[m].title = ghCalls[k].title
        /\ cur.step = "exists_true" =>
              /\ pc \in {"oi_loop", "done"}
              /\ i = cur.idx + 1
              /\ ghCalls[Len(ghCalls)].op = "exists"
              /\ ghCalls[Len(ghCalls)].ret = "TRUE"
              /\ ghCalls[Len(ghCalls)].idx = cur.idx
        /\ pc = "oi_create" =>
              /\ Len(ghCalls) > 0
              /\ ghCalls[Len(ghCalls)].op = "exists"
              /\ ghCalls[Len(ghCalls)].ret = "FALSE"

C2_Witness ==
    /\ InOpenIssues
    /\ cur.step = "exists_true"
    /\ pc = "oi_loop"
    /\ i = cur.idx + 1
    /\ i <= Len(catalog)
    /\ ghCalls[Len(ghCalls)].op = "exists"
    /\ ghCalls[Len(ghCalls)].ret = "TRUE"
    /\ \E m \in 1..Len(out) : out[m].msg = "Issue already exists in"

\* C3: once the EOL of a notification-eligible entry is resolved, the run goes
\* on to the existence check iff (eol - today).days <= warn_days, 30 when the
\* entry has no warn_days: equality notifies, and so does a date in the past.
C3_NotifyIffWithinWindow ==
    (InOpenIssues /\ cur.step \in NotifySteps \cup {"not_due"}) =>
        LET e == catalog[cur.idx]
            warn == IF e.warn_days.t = "missing" THEN 30 ELSE e.warn_days.v
        IN  /\ HasRepo(e)
            /\ (cur.step \in NotifySteps) <=> (KnownDays(cur.res.val, cur.today) <= warn)
            /\ (pc = "oi_exists") <=> (cur.step = "due")

C3_Witness ==
    /\ InOpenIssues
    /\ cur.step = "due"
    /\ catalog[cur.idx].warn_days.t = "missing"
    /\ KnownDays(cur.res.val, cur.today) = 30

\* C4: an entry without issue_repo is skipped by the open-issues flow before
\* anything is done for it: no existence check, no create, no resolution (no
\* request, and no failure of the run at that entry).
C4_NoRepoNeverNotified ==
    InOpenIssues =>
        /\ \A k \in 1..Len(ghCalls) : HasRepo(catalog[ghCalls[k].idx])
        /\ (cur.step # "none" /\ ~HasRepo(catalog[cur.idx])) => cur.step = "skipped"
        /\ pc \in {"crashed", "oi_exists", "oi_create"} => HasRepo(catalog[i])
        /\ Len(httpLog) <= Cardinality({k \in visited : HasRepo(catalog[k])})

C4_Witness ==
    /\ InOpenIssues
    /\ pc = "done"
    /\ exitCode = 0
    /\ \E k \in 1..Len(catalog) : catalog[k] = ManualCalendarOnly
    /\ \E k \in 1..Len(catalog) : catalog[k] = ApiCalendarOnly
    /\ httpLog = <<>>

\* the release the claim C5 speaks of: the first, in list order, whose name is
\* the string str(version)
IsFirstNamed(rels, ver, k) ==
    /\ rels[k].name.t = "str"
    /\ rels[k].name.v = ver
    /\ \A j \in 1..(k - 1) : ~(rels[j].name.t = "str" /\ rels[j].name.v = ver)

ApiInput == rOut.step = "called" /\ ~SourceIsManual(rIn.entry)

WellFormedReleases(body) ==
    /\ body.t = "dict"
    /\ body.result.t = "dict"
    /\ body.result.releases.t = "list"

HarnessVersion == IF rIn.entry.version.t = "int" THEN "2" ELSE rIn.entry.version.v

\* C5: for an api entry whose endpoint answers 200 with a result.releases list,
\* resolve makes exactly one request, to api_endpoint, and what it returns is
\* the parsed eolFrom of the first release whose name equals str(version),
\* whatever later releases of that name say.
C5_FirstMatchWins ==
    (ApiInput /\ rIn.rv.status = 200 /\ WellFormedReleases(rIn.rv.body)) =>
        LET rels == rIn.rv.body.result.releases.v
        IN  /\ httpLog = <<rIn.entry.api_endpoint.v>>
            /\ \A k \in 1..Len(rels) :
                  IsFirstNamed(rels, HarnessVersion, k) =>
                     IF IsKnownDate(rels[k].eolFrom)
                     THEN rOut.res = Return(KnownDate(rels[k].eolFrom.v))
                     ELSE ~rOut.res.ok
            /\ rOut.res.ok => \E k \in 1..Len(rels) : IsFirstNamed(rels, HarnessVersion, k)

C5_Witness ==
    /\ ApiInput
    /\ rIn.entry = ApiEntry
    /\ rIn.rv = OkReleases(<<Release(S("2"), S(Chars_2025_05_01)),
                             Release(S("2"), S(Chars_2024_01_01))>>)
    /\ rOut.res = Return(Date(2025, 5, 1))
    /\ Len(httpLog) = 1

\* the failure cases of C6 other than the status
SchemaOrMatchFailure(rv) ==
    \/ ~WellFormedReleases(rv.body)
    \/ LET rels == rv.body.result.releases.v
       IN  \/ ~\E k \in 1..Len(rels) : IsFirstNamed(rels, HarnessVersion, k)
           \/ \E k \in 1..Len(rels) :
                 /\ IsFirstNamed(rels, HarnessVersion, k)
                 /\ \/ rels[k].eolFrom.t \in {"missing", "none"}
                    \/ rels[k].eolFrom = S(<<>>)

\* C6, as claimed: resolve returns no date for an api entry when the status is
\* not 2xx, when result or result.releases is absent, when no release has the
\* name str(version), or when the first such release has no or an empty eolFrom.
C6_FailsOnNon2xx ==
    (ApiInput /\ rIn.rv.status # 0
        /\ (rIn.rv.status \notin 200..299 \/ SchemaOrMatchFailure(rIn.rv)))
    => ~rOut.res.ok

\* C6, amended: the same, with the status case limited to the statuses
\* raise_for_status raises on, 4xx and 5xx.
C6_FailsOnErrorStatus ==
    (ApiInput /\ rIn.rv.status # 0
        /\ (rIn.rv.status \in 400..599 \/ SchemaOrMatchFailure(rIn.rv)))
    => ~rOut.res.ok

C6_Witness ==
    /\ ApiInput
    /\ rIn.entry = ApiEntry
    /\ rIn.rv = Http(404, JPayload(JResult(JList(
                    <<Release(S("2"), S(Chars_2024_01_01))>>))))
    /\ ~rOut.res.ok

\* C7, as claimed: the source reference of the body of a created issue is the
\* api endpoint for an api entry and "manual entry" for every manual entry.
C7_SourceRefFollowsSource ==
    \A k \in 1..Len(ghCalls) :
        ghCalls[k].op = "create" =>
            LET e == catalog[ghCalls[k].idx]
            IN  ghCalls[k].body.source_ref =
                    IF SourceIsManual(e) THEN "manual entry" ELSE e.api_endpoint.v

\* C8: open-issues with GH_TOKEN unset or empty exits with status 1 before it
\* touches any entry: nothing resolved, no request, no gh call; generate-ics
\* never stops on the credential.
C8_MissingTokenIsFatal ==
    /\ (cmd = "open-issues" /\ (token.t = "none" \/ token = S(""))) =>
          /\ pc = "exited"
          /\ exitCode = 1
          /\ visited = {}
          /\ cur = NoCur
          /\ httpLog = <<>>
          /\ ghCalls = <<>>
    /\ pc = "exited" => cmd = "open-issues" /\ token \in {None, S("")}
    /\ cmd = "generate-ics" =>
          /\ pc # "exited"
          /\ \A m \in 1..Len(out) : out[m].msg = "entry"

C8_Witness ==
    /\ cmd = "open-issues"
    /\ token = S("")
    /\ pc = "exited"
    /\ \E k \in 1..Len(catalog) : HasRepo(catalog[k])

\* C9: the tracker never holds two issues with the same repo and title,
\* whatever the number of runs and whatever the catalog repeats.
C9_NoDuplicateIssues ==
    \A j, k \in 1..Len(tracker) :
        (tracker[j].repo = tracker[k].repo /\ tracker[j].title = tracker[k].title)
        => j = k

C9_Witness ==
    /\ InOpenIssues
    /\ cur.step = "exists_true"
    /\ \A k \in 1..Len(ghCalls) : ghCalls[k].op # "create"
    /\ \E k \in 1..Len(tracker) :
          /\ tracker[k].title = cur.title
          /\ tracker[k].state = "closed"
    /\ Len(tracker) = 1

\* the uid _calendar gives the event of an entry
UidOf(e) ==
    e.product.v \o "-" \o (IF e.version.t = "int" THEN "2" ELSE e.version.v)
    \o "@eol-checks"

\* C10: generate-ics resolves the entries in catalog order, whatever their
\* issue_repo, and writes the file only when all have resolved, with an event
\* for each; a failed resolution ends the run at that entry, no later entry is
\* resolved and the file is not written.
C10_CalendarAllOrNothing ==
    InCalendar =>
        /\ visited = 1..(IF pc \in {"cal_loop", "done"} THEN i - 1 ELSE i)
        /\ Len(out) = Cardinality(visited)
        /\ (cur.step = "resolve_raised") <=> (pc = "crashed")
        /\ pc = "crashed" => ~file.fresh /\ i <= Len(catalog) /\ exitCode = 1
        /\ pc = "cal_loop" => ~file.fresh
        /\ pc = "done" => file.fresh
        /\ file.fresh =>
              /\ visited = 1..Len(catalog)
              /\ file.events = cal
              /\ \A k \in 1..Len(catalog) :
                    \E ev \in file.events : ev.uid = UidOf(catalog[k])
        /\ \A k \in visited :
              (k < i \/ pc = "done") => \E ev \in cal : ev.uid = UidOf(catalog[k])

C10_Witness ==
    /\ InCalendar
    /\ pc = "crashed"
    /\ i < Len(catalog)
    /\ file.events # {}
    /\ ~file.fresh

====
